---- MODULE Spec2Model ----
(***************************************************************************)
(* Command construction, validation and execution of the three tool        *)
(* bindings PDFTK (pdftk.py), Magick (magick.py) and Tesseract             *)
(* (tesseract.py) over the shared base class CLI (cli.py), the module-    *)
(* level pdftk commands (CommandSpec) and the pipeline driver              *)
(* pdf_to_text.main (PipelineSpec).                                        *)
(*                                                                         *)
(* Python values are tagged records [tag, v]; a Python str is a TLA+       *)
(* string, a list is a sequence, a mapping is a sequence of <<key, value>> *)
(* pairs in insertion order.  Token groups are sequences of strings: on    *)
(* the annotated input domain (cli.py:15, Input = str | Sequence[str] |    *)
(* Mapping[str, str]) every token the formatters produce is a str.         *)
(***************************************************************************)
EXTENDS Integers, Sequences, FiniteSets, TLC

VARIABLES files, kind, status, args, self, last, prev, pipe

vars == <<files, kind, status, args, self, last, prev, pipe>>

(* ------------------------------ bounds -------------------------------- *)

\* At most this many constructor parameters / mapping entries are supplied
\* (everything else is absent) in one PDFTK or Tesseract construction, and
\* at most this many operators in one Magick construction.
MaxSupplied == 2

(* --------------------------- Python values ---------------------------- *)

PyNone == [tag |-> "None", v |-> <<>>]
PyStr(s) == [tag |-> "str", v |-> s]
PyList(xs) == [tag |-> "list", v |-> xs]
PyDict(kvs) == [tag |-> "dict", v |-> kvs]
PyInt(n) == [tag |-> "int", v |-> n]
PyBool(b) == [tag |-> "bool", v |-> b]

\* isinstance(var, type_) for the types the dispatch tables name.
IsInstance(var, type_) ==
    CASE type_ = "str" -> var.tag = "str"
      [] type_ = "Iterable" -> var.tag \in {"str", "list", "dict"}
      [] type_ = "dict" -> var.tag = "dict"
      [] type_ = "object" -> TRUE
      [] OTHER -> FALSE

\* bool(var)
Truthy(var) ==
    CASE var.tag = "None" -> FALSE
      [] var.tag = "bool" -> var.v
      [] var.tag = "int" -> var.v # 0
      [] var.tag = "str" -> var.v # ""
      [] OTHER -> Len(var.v) > 0

\* str(var) of a scalar
PyToStr(var) ==
    CASE var.tag = "str" -> var.v
      [] var.tag = "int" -> ToString(var.v)
      [] var.tag = "bool" -> IF var.v THEN "True" ELSE "False"
      [] OTHER -> "None"

\* list(var): the elements of a sequence, the keys of a mapping.
PyListOf(var) ==
    CASE var.tag = "list" -> var.v
      [] var.tag = "dict" -> [i \in 1..Len(var.v) |-> var.v[i][1]]
      [] OTHER -> <<>>

\* mapping.get(key): the value stored under key, else None.
DictGet(d, key) ==
    IF \E i \in 1..Len(d.v) : d.v[i][1] = key
    THEN d.v[CHOOSE i \in 1..Len(d.v) : d.v[i][1] = key][2]
    ELSE PyNone

(* ------------------------------ cli.py -------------------------------- *)

\* The lambda stored under key type_ of a dispatch table.
ApplyRule(type_, var, default) ==
    CASE type_ = "str" -> <<var.v>>
      [] type_ = "Iterable" -> PyListOf(var)
      [] type_ = "dict" -> [i \in 1..Len(var.v) |->
                               var.v[i][1] \o "=" \o PyToStr(var.v[i][2])]
      [] type_ = "None" -> default
      [] OTHER -> <<PyToStr(var)>>

\* Whether the loop of default_vars returns at key type_.
RuleMatches(type_, var) ==
    IF type_ = "None" THEN var.tag = "None" ELSE IsInstance(var, type_)

\* CLI.default_vars: the first key of default_mapping, in insertion order,
\* that var is an instance of decides the rule applied.
default_vars(var, default_mapping, default) ==
    LET hits == {i \in 1..Len(default_mapping) :
                    RuleMatches(default_mapping[i], var)}
        first == CHOOSE i \in hits : \A j \in hits : i <= j
    IN  ApplyRule(default_mapping[first], var, default)

\* CLI.default_var
default_var(var, default) ==
    default_vars(var, <<"str", "Iterable", "None", "object">>, default)

\* CLI.format_op_args
format_op_args(op, arg) ==
    IF arg.tag = "None" THEN <<>>
    ELSE IF arg.tag = "str" THEN <<op, arg.v>>
    ELSE IF IsInstance(arg, "Iterable") THEN <<op>> \o PyListOf(arg)
    ELSE <<op, PyToStr(arg)>>

\* CLI.format_option
format_option(options, option, default) ==
    IF Truthy(DictGet(options, option)) THEN <<option>> ELSE default

(* ----------------------------- pdftk.py ------------------------------- *)

\* The exception state of a call: none, or the class raised with the
\* message's subject (what) and the value the message reports.
NoExc == [type |-> "none", what |-> "", value |-> <<>>]
ValidationError(what, value) ==
    [type |-> "ValidationError", what |-> what, value |-> value]
PlainException(what, value) ==
    [type |-> "Exception", what |-> what, value |-> value]

\* PDFTK.format_input_vars
format_input_vars(var) ==
    default_vars(var, <<"str", "Iterable", "dict", "None", "object">>, <<>>)

\* PDFTK.format_ask
format_ask(ask) ==
    IF Truthy(ask) THEN <<"ask">> ELSE <<"dont_ask">>

\* format_encrypt that drops a value other than 40 or 128 silently.
format_encrypt_NoRaise(encrypt) ==
    IF encrypt.tag = "int" /\ encrypt.v = 40
    THEN [exc |-> NoExc, tokens |-> <<"encrypt_40bit">>]
    ELSE IF encrypt.tag = "int" /\ encrypt.v = 128
         THEN [exc |-> NoExc, tokens |-> <<"encrypt_128bit">>]
    ELSE [exc |-> NoExc, tokens |-> <<>>]

\* PDFTK.format_encrypt: the tokens, or the Exception raised.
format_encrypt(encrypt) ==
    IF encrypt.tag = "None" THEN [exc |-> NoExc, tokens |-> <<>>]
    ELSE IF encrypt.tag = "int" /\ encrypt.v = 40
         THEN [exc |-> NoExc, tokens |-> <<"encrypt_40bit">>]
    ELSE IF encrypt.tag = "int" /\ encrypt.v = 128
         THEN [exc |-> NoExc, tokens |-> <<"encrypt_128bit">>]
    ELSE [exc |-> PlainException("Invalid encrypt option",
                                 <<PyToStr(encrypt)>>),
          tokens |-> <<>>]

\* PDFTK.assign_input
PDFTK_assign_input(input_) ==
    IF input_.tag # "None" THEN format_input_vars(input_) ELSE <<>>

\* PDFTK.assign_output
PDFTK_assign_output(output) ==
    IF output.tag # "None" THEN format_op_args("output", output) ELSE <<>>

\* PDFTK.assign_operators: the 6-tuple it returns.
PDFTK_assign_operators(operators) ==
    IF operators.tag = "None"
    THEN <<<<>>, <<>>, <<>>, <<>>, <<>>, <<>>>>
    ELSE << format_input_vars(DictGet(operators, "input_pw")),
            default_var(DictGet(operators, "operation"), <<>>),
            default_var(DictGet(operators, "operation_arguments"), <<>>),
            format_op_args("allow", DictGet(operators, "allow")),
            format_op_args("owner_pw", DictGet(operators, "owner_pw")),
            format_op_args("user_pw", DictGet(operators, "user_pw")) >>

\* PDFTK.assign_options: the 10-tuple it returns (when format_encrypt
\* does not raise), in the order of the return statement.
PDFTK_assign_options(options) ==
    IF options.tag = "None"
    THEN <<<<>>, <<>>, <<>>, <<>>, <<>>, <<>>, <<>>, <<>>, <<>>, <<>>>>
    ELSE << format_encrypt(DictGet(options, "encrypt")).tokens,
            format_option(options, "flatten", <<>>),
            format_option(options, "need_appearances", <<>>),
            format_option(options, "compress", <<>>),
            format_option(options, "uncompress", <<>>),
            format_option(options, "drop_xfa", <<>>),
            format_option(options, "keep_first_id", <<>>),
            format_option(options, "keep_final_id", <<>>),
            format_option(options, "verbose", <<>>),
            format_ask(DictGet(options, "ask")) >>

\* The exception assign_options propagates out of format_encrypt.
PDFTK_assign_options_exc(options) ==
    IF options.tag = "None" THEN NoExc
    ELSE format_encrypt(DictGet(options, "encrypt")).exc

\* PDFTK.__init__: the attributes, by the tuple unpacking of lines 54-69.
PDFTK_init(input_, output, operators, options) ==
    LET ops == PDFTK_assign_operators(operators)
        opt == PDFTK_assign_options(options)
    IN  [input |-> PDFTK_assign_input(input_),
         output |-> PDFTK_assign_output(output),
         input_pw |-> ops[1],
         operation |-> ops[2],
         operation_arguments |-> ops[3],
         allow |-> ops[4],
         owner_pw |-> ops[5],
         user_pw |-> ops[6],
         encrypt |-> opt[1],
         flatten |-> opt[2],
         need_appearances |-> opt[3],
         compress |-> opt[4],
         uncompress |-> opt[5],
         keep_first_id |-> opt[6],
         keep_final_id |-> opt[7],
         drop_xfa |-> opt[8],
         verbose |-> opt[9],
         ask |-> opt[10]]

\* os.path.isfile(i) against the file system of the run.
isfile(i, fs) == i \in fs

\* The characters \S does not match.
Whitespace == {" ", "\t", "\n", "\r", "\f"}

\* re.search(r'\S+', s): some character of s is not whitespace.
re_search_nonspace(s) ==
    \E k \in 1..Len(s) : SubSeq(s, k, k) \notin Whitespace

\* re.search(r'.+\.pdf|PROMPT', s): an unanchored search; the first
\* alternative needs one character other than a newline right before
\* ".pdf", the second the substring "PROMPT", anywhere in s.
re_search_pdf_or_prompt(s) ==
    \/ \E k \in 2..(Len(s) - 3) :
          /\ SubSeq(s, k - 1, k - 1) # "\n"
          /\ SubSeq(s, k, k + 3) = ".pdf"
    \/ \E k \in 1..(Len(s) - 5) : SubSeq(s, k, k + 5) = "PROMPT"

\* x in xs, for a list xs.
InList(x, xs) == \E k \in 1..Len(xs) : xs[k] = x

\* The index of the first iteration of a loop in which an assert fails, 0
\* when the loop runs to its end; passes[k] tells whether the asserts of
\* iteration k hold.
FirstFailing(passes) ==
    IF \A k \in 1..Len(passes) : passes[k] THEN 0
    ELSE CHOOSE k \in 1..Len(passes) :
           /\ ~passes[k]
           /\ \A j \in 1..(k - 1) : passes[j]

\* validate_input naming the last offending token instead of the first.
PDFTK_validate_input_LastOffending(obj, fs) ==
    LET bad == {k \in 1..Len(obj.input) :
                   ~(isfile(obj.input[k], fs) \/ obj.input[k] = "PROMPT")}
    IN  IF bad = {} THEN NoExc
        ELSE ValidationError("Invalid input value",
                 <<obj.input[CHOOSE k \in bad : \A j \in bad : j <= k]>>)

\* PDFTK.validate_input
PDFTK_validate_input(obj, fs) ==
    LET Passes(i) == isfile(i, fs) \/ i = "PROMPT"
        k == FirstFailing([j \in 1..Len(obj.input) |-> Passes(obj.input[j])])
    IN  IF k = 0 THEN NoExc
        ELSE ValidationError("Invalid input value", <<obj.input[k]>>)

\* PDFTK.validate_output
PDFTK_validate_output(obj, fs) ==
    IF obj.output = <<>> THEN NoExc
    ELSE LET rest == Tail(obj.output)
             Passes(i) == /\ re_search_pdf_or_prompt(i)
                          /\ ~InList(i, obj.input)
             k == FirstFailing([j \in 1..Len(rest) |-> Passes(rest[j])])
         IN  IF k = 0 THEN NoExc
             ELSE ValidationError("Invalid output value", <<rest[k]>>)

\* allowable_ops of PDFTK.validate_operation
allowable_ops ==
    << "cat", "shuffle", "burst", "rotate", "generate_fdf", "fill_form",
       "background", "multibackground", "stamp", "multistamp", "dump_data",
       "dump_data_utf8", "dump_data_fields", "dump_data_fields_utf8",
       "dump_data_anots", "update_info", "update_info_utf8", "attach_files",
       "unpack_files" >>

\* validate_operation without the check that one name only is given.
PDFTK_validate_operation_AnyLength(obj) ==
    IF obj.operation = <<>> THEN NoExc
    ELSE IF InList(obj.operation[1], allowable_ops) THEN NoExc
         ELSE ValidationError("Invalid operation", obj.operation)

\* PDFTK.validate_operation
PDFTK_validate_operation(obj) ==
    IF obj.operation = <<>> THEN NoExc
    ELSE IF /\ Len(obj.operation) = 1
            /\ InList(obj.operation[1], allowable_ops)
         THEN NoExc
         ELSE ValidationError("Invalid operation", obj.operation)

\* PDFTK.validate_operation_args: its body is "..."
PDFTK_validate_operation_args(obj) == NoExc

\* allowable of PDFTK.validate_permissions
allowable ==
    << "allow", "Printing", "DegradedPrinting", "ModifyContents", "Assembly",
       "CopyContents", "ScreenReaders", "ModifyAnnotations", "FillIn",
       "AllFeatures" >>

\* [i for i in xs if i not in ys]
RECURSIVE NotInList(_, _)
NotInList(xs, ys) ==
    IF xs = <<>> THEN <<>>
    ELSE (IF InList(Head(xs), ys) THEN <<>> ELSE <<Head(xs)>>)
         \o NotInList(Tail(xs), ys)

\* PDFTK.validate_permissions
PDFTK_validate_permissions(obj) ==
    LET not_in_allowable == NotInList(obj.allow, allowable)
    IN  IF Len(not_in_allowable) = 0 THEN NoExc
        ELSE ValidationError("Invalid permission(s)", not_in_allowable)

\* PDFTK.validate_pw
PDFTK_validate_pw(pw_type, pw) ==
    IF pw = <<>> THEN NoExc
    ELSE IF re_search_nonspace(pw[1]) THEN NoExc
         ELSE ValidationError("Invalid " \o pw_type, pw)

\* The exception of the first call, in order, that raises.
RECURSIVE FirstExc(_)
FirstExc(excs) ==
    IF excs = <<>> THEN NoExc
    ELSE IF Head(excs).type # "none" THEN Head(excs)
    ELSE FirstExc(Tail(excs))

\* PDFTK.validate_pws
PDFTK_validate_pws(obj) ==
    FirstExc(<< PDFTK_validate_pw("input_pw", obj.input_pw),
                PDFTK_validate_pw("owner_pw", obj.owner_pw),
                PDFTK_validate_pw("user_pw", obj.user_pw) >>)

\* PDFTK.validate_operators
PDFTK_validate_operators(obj) ==
    FirstExc(<< PDFTK_validate_operation(obj),
                PDFTK_validate_operation_args(obj),
                PDFTK_validate_permissions(obj),
                PDFTK_validate_pws(obj) >>)

\* PDFTK.validate_option
PDFTK_validate_option(option, valid) ==
    IF option = <<>> THEN NoExc
    ELSE IF InList(option[1], valid) THEN NoExc
         ELSE ValidationError("Invalid option", option)

\* PDFTK.validate_options (verbose is not among the options it checks)
PDFTK_validate_options(obj) ==
    FirstExc(<<
        PDFTK_validate_option(obj.encrypt,
                              <<"encrypt_40bit", "encrypt_128bit">>),
        PDFTK_validate_option(obj.flatten, <<"flatten">>),
        PDFTK_validate_option(obj.need_appearances, <<"need_appearances">>),
        PDFTK_validate_option(obj.compress, <<"compress">>),
        PDFTK_validate_option(obj.uncompress, <<"uncompress">>),
        PDFTK_validate_option(obj.keep_first_id, <<"keep_first_id">>),
        PDFTK_validate_option(obj.keep_final_id, <<"keep_final_id">>),
        PDFTK_validate_option(obj.drop_xfa, <<"drop_xfa">>),
        PDFTK_validate_option(obj.ask, <<"ask", "dont_ask">>) >>)

\* test_args_empty that holds only when every token group is empty.
PDFTK_test_args_empty_AllGroups(obj) ==
    \A attr \in DOMAIN obj : obj[attr] = <<>>

\* PDFTK.test_args_empty
PDFTK_test_args_empty(obj) ==
    /\ obj.input = <<>>
    /\ obj.output = <<>>
    /\ obj.operation = <<>>

\* PDFTK.prepare_command
PDFTK_prepare_command(obj) ==
    <<"pdftk">>
    \o obj.input
    \o obj.input_pw
    \o obj.operation
    \o obj.operation_arguments
    \o obj.output
    \o obj.encrypt
    \o obj.allow
    \o obj.owner_pw
    \o obj.user_pw
    \o obj.flatten
    \o obj.need_appearances
    \o obj.compress
    \o obj.uncompress
    \o obj.keep_first_id
    \o obj.keep_final_id
    \o obj.drop_xfa
    \o obj.verbose
    \o obj.ask

\* PDFTK.empty_command
PDFTK_empty_command == <<"pdftk", "--version">>

(* ------------------------------ utils.py ------------------------------ *)

\* flatten: "-" + key, then the value stored under it, per key in
\* insertion order; the values of the annotated Mapping[str, str] are strs.
flatten(arg_map) ==
    IF arg_map.tag = "None" THEN <<>>
    ELSE [i \in 1..(2 * Len(arg_map.v)) |->
            IF i % 2 = 1 THEN "-" \o arg_map.v[(i + 1) \div 2][1]
            ELSE arg_map.v[i \div 2][2].v]

(* ----------------------------- magick.py ------------------------------ *)

\* The entries of a mapping whose value satisfies the comprehension's
\* condition, each value replaced by str(v["value"]).
RECURSIVE SettingsOf(_, _)
SettingsOf(items, position) ==
    IF items = <<>> THEN <<>>
    ELSE LET k == Head(items)[1]
             v == Head(items)[2]
         IN  (IF v.type = "setting" /\ v.position = position
              THEN << <<k, PyStr(PyToStr(v.value))>> >>
              ELSE <<>>)
             \o SettingsOf(Tail(items), position)

\* Magick.get_settings
get_settings(operators, position) ==
    PyDict(SettingsOf(operators.v, position))

\* Magick.assign_input
Magick_assign_input(input_) == default_var(input_, <<>>)

\* Magick.assign_output
Magick_assign_output(output) ==
    IF output.tag # "None" THEN <<output.v>> ELSE <<>>

\* Magick.assign_operators: the pair it returns.
Magick_assign_operators(operators) ==
    IF operators.tag # "None"
    THEN << flatten(get_settings(operators, "pre")),
            flatten(get_settings(operators, "post")) >>
    ELSE << <<>>, <<>> >>

\* Magick.__init__
Magick_init(input_, output, operators, options) ==
    LET ops == Magick_assign_operators(operators)
    IN  [input |-> Magick_assign_input(input_),
         output |-> Magick_assign_output(output),
         pre_image_settings |-> ops[1],
         post_image_settings |-> ops[2]]

\* prepare_command with every setting placed before the input.
Magick_prepare_command_SettingsFirst(obj) ==
    <<"magick">>
    \o obj.pre_image_settings
    \o obj.post_image_settings
    \o obj.input
    \o obj.output

\* Magick.prepare_command
Magick_prepare_command(obj) ==
    <<"magick">>
    \o obj.pre_image_settings
    \o obj.input
    \o obj.post_image_settings
    \o obj.output

\* Magick.test_args_empty
Magick_test_args_empty(obj) ==
    /\ obj.pre_image_settings = <<>>
    /\ obj.input = <<>>
    /\ obj.post_image_settings = <<>>
    /\ obj.output = <<>>

\* Magick.validate_input, validate_output, validate_operators and
\* validate_options: each body is "..."
Magick_validate(obj) == NoExc

\* Magick.empty_command
Magick_empty_command == <<"magick", "-version">>

(* ---------------------------- tesseract.py ---------------------------- *)

\* Tesseract.assign_input
Tesseract_assign_input(input_) == default_var(input_, <<>>)

\* Tesseract.assign_output
Tesseract_assign_output(output) ==
    IF output.tag # "None" THEN <<output.v>> ELSE <<>>

\* Tesseract.assign_operators
Tesseract_assign_operators(operators) ==
    default_var(PyList(flatten(operators)), <<>>)

\* Tesseract.assign_options
Tesseract_assign_options(options) == default_var(options, <<>>)

\* Tesseract.__init__
Tesseract_init(input_, output, operators, options) ==
    [input |-> Tesseract_assign_input(input_),
     output |-> Tesseract_assign_output(output),
     options |-> Tesseract_assign_operators(operators),
     config_file |-> Tesseract_assign_options(options)]

\* Tesseract.prepare_command
Tesseract_prepare_command(obj) ==
    <<"tesseract">>
    \o obj.input
    \o obj.output
    \o obj.options
    \o obj.config_file

\* Tesseract.test_args_empty
Tesseract_test_args_empty(obj) ==
    /\ obj.input = <<>>
    /\ obj.output = <<>>
    /\ obj.options = <<>>
    /\ obj.config_file = <<>>

\* Tesseract.validate_input, validate_output, validate_operators and
\* validate_options: each body is "..."
Tesseract_validate(obj) == NoExc

\* Tesseract.empty_command
Tesseract_empty_command == <<"tesseract", "--version">>

(* --------------------------- CLI.run (cli.py) -------------------------- *)

\* Method dispatch on the class of the binding.
test_args_empty(k, obj) ==
    CASE k = "PDFTK" -> PDFTK_test_args_empty(obj)
      [] k = "Magick" -> Magick_test_args_empty(obj)
      [] k = "Tesseract" -> Tesseract_test_args_empty(obj)

empty_command(k) ==
    CASE k = "PDFTK" -> PDFTK_empty_command
      [] k = "Magick" -> Magick_empty_command
      [] k = "Tesseract" -> Tesseract_empty_command

prepare_command(k, obj) ==
    CASE k = "PDFTK" -> PDFTK_prepare_command(obj)
      [] k = "Magick" -> Magick_prepare_command(obj)
      [] k = "Tesseract" -> Tesseract_prepare_command(obj)

Validate(k, method, obj, fs) ==
    CASE k = "Magick" -> Magick_validate(obj)
      [] k = "Tesseract" -> Tesseract_validate(obj)
      [] k = "PDFTK" /\ method = "validate_input" ->
            PDFTK_validate_input(obj, fs)
      [] k = "PDFTK" /\ method = "validate_output" ->
            PDFTK_validate_output(obj, fs)
      [] k = "PDFTK" /\ method = "validate_operators" ->
            PDFTK_validate_operators(obj)
      [] k = "PDFTK" /\ method = "validate_options" ->
            PDFTK_validate_options(obj)

\* The validators with validate_output called before validate_input.
RunValidators_OutputFirst ==
    <<"validate_output", "validate_input",
      "validate_operators", "validate_options">>

\* The validators CLI.run calls, in the order of its statements.
RunValidators ==
    <<"validate_input", "validate_output",
      "validate_operators", "validate_options">>

\* How many of the validators in order are called: up to and including the
\* first that raises (an exception leaves run at once).
ValidatorsCalled(k, order, obj, fs) ==
    LET Passes(m) == Validate(k, m, obj, fs).type = "none"
        n == FirstFailing([j \in 1..Len(order) |-> Passes(order[j])])
    IN  IF n = 0 THEN Len(order) ELSE n

\* CLI.run with the validation failure reported but the command prepared
\* and handed to subprocess.run all the same.
CLI_run_LaunchDespiteFailure(k, obj, fs) ==
    IF test_args_empty(k, obj)
    THEN [calls |-> <<"test_args_empty", "subprocess.run">>,
          exc |-> NoExc,
          launched |-> <<empty_command(k)>>]
    ELSE LET n == ValidatorsCalled(k, RunValidators, obj, fs)
         IN  [calls |-> <<"test_args_empty">> \o RunValidators
                        \o <<"prepare_command", "subprocess.run">>,
              exc |-> Validate(k, RunValidators[n], obj, fs),
              launched |-> <<prepare_command(k, obj)>>]

\* CLI.run: the methods called in order, the exception that leaves it
\* (if any) and the commands handed to subprocess.run.
CLI_run(k, obj, fs) ==
    IF test_args_empty(k, obj)
    THEN [calls |-> <<"test_args_empty", "subprocess.run">>,
          exc |-> NoExc,
          launched |-> <<empty_command(k)>>]
    ELSE LET n == ValidatorsCalled(k, RunValidators, obj, fs)
             e == Validate(k, RunValidators[n], obj, fs)
         IN  IF e.type # "none"
             THEN [calls |-> <<"test_args_empty">>
                             \o SubSeq(RunValidators, 1, n),
                   exc |-> e,
                   launched |-> <<>>]
             ELSE [calls |-> <<"test_args_empty">> \o RunValidators
                             \o <<"prepare_command", "subprocess.run">>,
                   exc |-> NoExc,
                   launched |-> <<prepare_command(k, obj)>>]

(* ------------------- the parameters callers supply -------------------- *)

\* The file systems a run may see: "a.pdf" exists, a file named "PROMPT"
\* may or may not; "missing.pdf", "gone.pdf" and the outputs do not exist.
FileSystems == { {"a.pdf"}, {"a.pdf", "PROMPT"} }

\* The keys PDFTK.assign_operators and PDFTK.assign_options read.
PDFTK_OperatorKeys ==
    <<"input_pw", "operation", "operation_arguments",
      "allow", "owner_pw", "user_pw">>

PDFTK_FlagKeys ==
    <<"flatten", "need_appearances", "compress", "uncompress",
      "keep_first_id", "keep_final_id", "drop_xfa", "verbose">>

PDFTK_OptionKeys == <<"encrypt">> \o PDFTK_FlagKeys \o <<"ask">>

Range(xs) == {xs[i] : i \in 1..Len(xs)}

PDFTK_Slots ==
    {"input", "output"} \cup Range(PDFTK_OperatorKeys)
                        \cup Range(PDFTK_OptionKeys)

Passwords == {PyStr(""), PyStr(" "), PyStr("pw")}

\* The values tried for each parameter of a PDFTK construction.
PDFTK_Values(slot) ==
    CASE slot = "input" ->
            { PyStr("a.pdf"), PyStr("PROMPT"), PyStr("missing.pdf"),
              PyList(<<"a.pdf", "gone.pdf", "missing.pdf">>),
              PyList(<<>>),
              PyDict(<< <<"A", PyStr("a.pdf")>> >>) }
      [] slot = "output" ->
            { PyStr("o.pdf"), PyStr("a.pdf"), PyStr("o.txt"),
              PyStr("o.pdf.txt"), PyStr("PROMPT"), PyStr(".pdf"),
              PyList(<<"o.pdf", "o.txt">>) }
      [] slot = "input_pw" -> Passwords
      [] slot = "owner_pw" -> Passwords
      [] slot = "user_pw" -> Passwords
      [] slot = "operation" ->
            { PyStr("burst"), PyStr("not_a_real_op"),
              PyStr("dump_data_annots"), PyList(<<"cat", "burst">>) }
      [] slot = "operation_arguments" -> { PyStr("A1-2") }
      [] slot = "allow" ->
            { PyStr("Printing"), PyList(<<"Printing", "AllFeatures">>),
              PyList(<<"Bogus", "Printing", "Nope">>), PyList(<<"allow">>) }
      [] slot = "encrypt" -> { PyInt(40), PyInt(128), PyInt(64) }
      [] OTHER -> { PyBool(TRUE), PyBool(FALSE) }

\* The subsets of S with at most n elements.
RECURSIVE SubsetsUpTo(_, _)
SubsetsUpTo(S, n) ==
    IF n = 0 THEN {{}}
    ELSE LET smaller == SubsetsUpTo(S, n - 1)
         IN  smaller \cup {T \cup {x} : T \in smaller, x \in S}

\* Every way to give each slot of K one of its values.
RECURSIVE Assignments(_)
Assignments(K) ==
    IF K = {} THEN {<<>>}
    ELSE LET k == CHOOSE x \in K : TRUE
         IN  {a @@ (k :> v) : a \in Assignments(K \ {k}),
                              v \in PDFTK_Values(k)}

\* The mapping holding the supplied keys among keys, in that order.
RECURSIVE DictOf(_, _)
DictOf(keys, a) ==
    IF keys = <<>> THEN <<>>
    ELSE (IF Head(keys) \in DOMAIN a
          THEN << <<Head(keys), a[Head(keys)]>> >> ELSE <<>>)
         \o DictOf(Tail(keys), a)

\* The constructor arguments of an assignment; a mapping with no key
\* supplied is passed as None or (given) as the empty mapping.
PDFTK_ArgsOf(a, operatorsGiven, optionsGiven) ==
    [input_ |-> IF "input" \in DOMAIN a THEN a["input"] ELSE PyNone,
     output |-> IF "output" \in DOMAIN a THEN a["output"] ELSE PyNone,
     operators |-> IF operatorsGiven
                   THEN PyDict(DictOf(PDFTK_OperatorKeys, a)) ELSE PyNone,
     options |-> IF optionsGiven
                 THEN PyDict(DictOf(PDFTK_OptionKeys, a)) ELSE PyNone]

PDFTK_Args ==
    UNION { { PDFTK_ArgsOf(a, og, tg) :
                og \in (IF DOMAIN a \cap Range(PDFTK_OperatorKeys) = {}
                        THEN BOOLEAN ELSE {TRUE}),
                tg \in (IF DOMAIN a \cap Range(PDFTK_OptionKeys) = {}
                        THEN BOOLEAN ELSE {TRUE}) } :
            a \in UNION { Assignments(K) :
                            K \in SubsetsUpTo(PDFTK_Slots, MaxSupplied) } }

\* A descriptor of a Magick operator.
Setting(type_, position, value) ==
    [type |-> type_, position |-> position, value |-> value]

\* The operator entries tried for a Magick construction.
Magick_Entries ==
    { <<"density", Setting("setting", "pre", PyInt(300))>>,
      <<"depth", Setting("setting", "post", PyInt(8))>>,
      <<"type", Setting("setting", "post", PyStr("Grayscale"))>>,
      <<"resize", Setting("operator", "post", PyStr("50%"))>> }

\* The sequences of at most n entries of E with distinct keys.
RECURSIVE EntrySeqs(_, _)
EntrySeqs(E, n) ==
    IF n = 0 THEN {<<>>}
    ELSE LET shorter == EntrySeqs(E, n - 1)
         IN  shorter \cup
             UNION { { Append(q, e) : e \in
                         {x \in E : \A i \in 1..Len(q) : q[i][1] # x[1]} } :
                     q \in shorter }

\* How many parameters a Magick or Tesseract construction supplies.
SuppliedCount(a) ==
    (IF a.input_.tag = "None" THEN 0 ELSE 1)
    + (IF a.output.tag = "None" THEN 0 ELSE 1)
    + (IF a.operators.tag = "dict" THEN Len(a.operators.v) ELSE 0)
    + (IF a.options.tag = "None" THEN 0 ELSE 1)

\* The arguments of a Magick construction: any input and output with an
\* operator mapping of at most MaxSupplied entries.
Magick_Args ==
    [input_ : {PyNone, PyStr("a.pdf"), PyList(<<"a.pdf", "b.pdf">>)},
     output : {PyNone, PyStr("a.tiff")},
     operators : {PyNone} \cup
         {PyDict(q) : q \in EntrySeqs(Magick_Entries, MaxSupplied)},
     options : {PyNone}]

Tesseract_Entries ==
    { <<"l", PyStr("eng")>>, <<"psm", PyStr("6")>> }

Tesseract_Args ==
    { a \in [input_ : {PyNone, PyStr("list.txt")},
             output : {PyNone, PyStr("out")},
             operators : {PyNone} \cup
                 {PyDict(q) : q \in EntrySeqs(Tesseract_Entries, MaxSupplied)},
             options : {PyNone, PyStr("pdf"), PyList(<<"pdf", "txt">>)}] :
        SuppliedCount(a) <= MaxSupplied }

(* ------------------------------ the state ----------------------------- *)

NoArgs == [input_ |-> PyNone, output |-> PyNone,
           operators |-> PyNone, options |-> PyNone]

NoObject == <<>>

\* No call of run() yet.
NoRun == [calls |-> <<>>, exc |-> NoExc, launched |-> <<>>]

\* pdf_to_text.main has not been entered.
NoPipeline ==
    [pc |-> "idle", argv |-> <<>>, signature |-> -1,
     pages |-> "", tiffed |-> "", tessed |-> "",
     log |-> <<>>, exc |-> NoExc, created |-> {}, removed |-> {}]

Init ==
    /\ files \in FileSystems
    /\ kind = "none"
    /\ status = "none"
    /\ args = NoArgs
    /\ self = NoObject
    /\ last = NoRun
    /\ prev = NoRun
    /\ pipe = NoPipeline

\* PDFTK(input_, output, operators, options): __init__ either completes
\* or leaves by the Exception of format_encrypt, and then no object exists.
ConstructPDFTK ==
    /\ status = "none"
    /\ \E a \in PDFTK_Args :
          LET e == PDFTK_assign_options_exc(a.options)
          IN  /\ args' = a
              /\ kind' = "PDFTK"
              /\ IF e.type = "none"
                 THEN /\ status' = "constructed"
                      /\ self' = PDFTK_init(a.input_, a.output,
                                            a.operators, a.options)
                      /\ last' = NoRun
                 ELSE /\ status' = "raised"
                      /\ self' = NoObject
                      /\ last' = [NoRun EXCEPT !.exc = e]
    /\ UNCHANGED <<files, prev, pipe>>

\* Magick(input_, output, operators)
ConstructMagick ==
    /\ status = "none"
    /\ \E a \in Magick_Args :
          /\ args' = a
          /\ self' = Magick_init(a.input_, a.output, a.operators, a.options)
    /\ kind' = "Magick"
    /\ status' = "constructed"
    /\ UNCHANGED <<files, last, prev, pipe>>

\* Tesseract(input_, output, operators, options)
ConstructTesseract ==
    /\ status = "none"
    /\ \E a \in Tesseract_Args :
          /\ args' = a
          /\ self' = Tesseract_init(a.input_, a.output,
                                    a.operators, a.options)
    /\ kind' = "Tesseract"
    /\ status' = "constructed"
    /\ UNCHANGED <<files, last, prev, pipe>>

\* binding.run(): prev keeps the outcome of the call before this one.
Run ==
    /\ status = "constructed"
    /\ last' = CLI_run(kind, self, files)
    /\ prev' = last
    /\ UNCHANGED <<files, kind, status, args, self, pipe>>

\* The binding is dropped; the next invocation constructs a new one.
Discard ==
    /\ status # "none"
    /\ kind' = "none"
    /\ status' = "none"
    /\ args' = NoArgs
    /\ self' = NoObject
    /\ last' = NoRun
    /\ prev' = NoRun
    /\ UNCHANGED <<files, pipe>>

Next ==
    \/ ConstructPDFTK
    \/ ConstructMagick
    \/ ConstructTesseract
    \/ Run
    \/ Discard

Spec == Init /\ [][Next]_vars

(* --------------------- module-level pdftk commands -------------------- *)

\* operators[key] = value on a dict: an existing key keeps its place.
DictSet(d, key, value) ==
    IF \E i \in 1..Len(d.v) : d.v[i][1] = key
    THEN PyDict([i \in 1..Len(d.v) |->
                    IF d.v[i][1] = key THEN <<key, value>> ELSE d.v[i]])
    ELSE PyDict(Append(d.v, <<key, value>>))

\* The operators inner() passes to PDFTK: {} for None, then the two
\* assignments.
make_command_operators(command, operators, command_args) ==
    DictSet(DictSet(IF operators.tag = "None" THEN PyDict(<<>>) ELSE operators,
                    "operation", PyStr(command)),
            "operation_arguments", command_args)

\* make_command(command)(input_, output, operators, options, command_args):
\* the arguments PDFTK receives, whether __init__ completed, the binding
\* and the outcome of its run().
make_command(command, input_, output, operators, options, command_args, fs) ==
    LET ops == make_command_operators(command, operators, command_args)
        a == [input_ |-> input_, output |-> output,
              operators |-> ops, options |-> options]
        e == PDFTK_assign_options_exc(options)
        obj == PDFTK_init(input_, output, ops, options)
    IN  IF e.type = "none"
        THEN [args |-> a, status |-> "returned", self |-> obj,
              run |-> CLI_run("PDFTK", obj, fs)]
        ELSE [args |-> a, status |-> "raised", self |-> NoObject,
              run |-> [NoRun EXCEPT !.exc = e]]

\* The names bound to make_command(name) at module level.
Commands ==
    { "cat", "shuffle", "burst", "rotate", "fill_form", "background",
      "multibackground", "stamp", "multistamp", "update_info",
      "update_info_utf8", "attach_files",
      "generate_fdf", "dump_data", "dump_data_utf8", "dump_data_fields",
      "dump_data_fields_utf8", "dump_data_annots", "unpack_files" }

\* The arguments tried for a module-level command.
Command_Args ==
    [input_ : {PyStr("a.pdf"), PyStr("missing.pdf")},
     output : {PyStr("o.pdf"), PyStr("o.txt")},
     operators : {PyNone,
                  PyDict(<< <<"owner_pw", PyStr("pw")>> >>),
                  PyDict(<< <<"operation", PyStr("not_a_real_op")>> >>)},
     options : {PyNone, PyDict(<< <<"encrypt", PyInt(64)>> >>)},
     command_args : {PyNone, PyList(<<"1-3">>)}]

\* pdftk.<command>(input_, output, operators, options, command_args): one
\* call constructs the binding and runs it; the caller holds no binding
\* afterwards, only what the call returned or raised.
CallCommand ==
    /\ status = "none"
    /\ \E command \in Commands, a \in Command_Args :
          LET r == make_command(command, a.input_, a.output, a.operators,
                                a.options, a.command_args, files)
          IN  /\ args' = r.args
              /\ status' = r.status
              /\ self' = r.self
              /\ last' = r.run
    /\ kind' = "PDFTK"
    /\ UNCHANGED <<files, prev, pipe>>

CommandNext ==
    \/ CallCommand
    \/ Discard

CommandSpec == Init /\ [][CommandNext]_vars

(* --------------------------- pdf_to_text.py --------------------------- *)

\* magick(input_, output, density, type_, compress, background, alpha,
\* depth): the operators it builds, the binding and the outcome of run().
magick(input_, output, density, type_, compress, background, alpha, depth) ==
    LET operators ==
            PyDict(<< <<"density", Setting("setting", "pre", density)>>,
                      <<"type", Setting("setting", "post", type_)>>,
                      <<"compress", Setting("setting", "post", compress)>>,
                      <<"background", Setting("setting", "post", background)>>,
                      <<"alpha", Setting("setting", "post", alpha)>>,
                      <<"depth", Setting("setting", "post", depth)>> >>)
        obj == Magick_init(input_, output, operators, PyNone)
    IN  [args |-> [input_ |-> input_, output |-> output,
                   operators |-> operators, options |-> PyNone],
         status |-> "returned", self |-> obj,
         run |-> CLI_run("Magick", obj, {})]

\* tesseract(input, output, format)
tesseract(input, output, format) ==
    LET operators == PyDict(<< <<"l", PyStr("eng")>> >>)
        obj == Tesseract_init(input, output, operators, format)
    IN  [args |-> [input_ |-> input, output |-> output,
                   operators |-> operators, options |-> format],
         status |-> "returned", self |-> obj,
         run |-> CLI_run("Tesseract", obj, {})]

\* The exception check_output raises.
OutputError == [type |-> "OutputError", what |-> "Invalid output",
                value |-> <<>>]

\* check_output that accepts every return code.
check_output_AnyCode(returncode) == NoExc

\* utils.check_output: OutputError unless proc.returncode == 0.
check_output(returncode) ==
    IF returncode = 0 THEN NoExc ELSE OutputError

\* s[:-n] for n > 0: s without its last n characters, "" if it has no more.
DropLast(s, n) ==
    IF Len(s) > n THEN SubSeq(s, 1, Len(s) - n) ELSE ""

\* Whether glob(pattern) yields name, for a pattern with one "*" and no
\* directory part; a leading "*" does not match a leading ".".
GlobMatch(name, pattern) ==
    LET stars == {k \in 1..Len(pattern) : SubSeq(pattern, k, k) = "*"}
    IN  IF stars = {} THEN name = pattern
        ELSE LET k == CHOOSE j \in stars : TRUE
                 pre == SubSeq(pattern, 1, k - 1)
                 post == SubSeq(pattern, k + 1, Len(pattern))
             IN  /\ Len(name) >= Len(pre) + Len(post)
                 /\ SubSeq(name, 1, Len(pre)) = pre
                 /\ SubSeq(name, Len(name) - Len(post) + 1, Len(name)) = post
                 /\ ~(k = 1 /\ Len(name) > 0 /\ SubSeq(name, 1, 1) = ".")

\* glob(pattern) in the working directory.
glob(pattern, fs) == {f \in fs : GlobMatch(f, pattern)}

\* int(random.random() * 100000000) is below this.
SignatureLimit == 100000000

\* The signatures tried: one, two, four, five and eight digits.
Signatures == {n \in {5, 42, 1234, 12345, 12345678} : n < SignatureLimit}

\* The return codes a subprocess may report.
ReturnCodes == {0, 1}

\* sys.argv[1:] of the invocations tried.
Argvs ==
    { <<"a.pdf", "out", "txt">>, <<"a.pdf", "out", "pdf">>,
      <<"missing.pdf", "out", "txt">>, <<"a.pdf", "out", "txt", "extra">>,
      <<"a.pdf", "out">> }

\* The working directories tried: the input and an unrelated file, with
\* or without a file of another program whose name begins with "tmp1234".
WorkingDirectories ==
    { {"a.pdf", "notes.txt"}, {"a.pdf", "notes.txt", "tmp1234_scan.pdf"} }

\* What a stage leaves after BINDING.run() and check_output: the log entry
\* (the return code seen, none if run() raised before any subprocess) and
\* the exception that ends the stage, if any.
StageOutcome(stage, run, returncode) ==
    IF run.exc.type # "none"
    THEN [exc |-> run.exc,
          entry |-> [stage |-> stage, returncode |-> <<>>]]
    ELSE [exc |-> check_output(returncode),
          entry |-> [stage |-> stage, returncode |-> <<returncode>>]]

\* The pipeline after a stage that raised.
Failed(stage_outcome) ==
    [pipe EXCEPT !.pc = "failed",
                 !.exc = stage_outcome.exc,
                 !.log = Append(@, stage_outcome.entry)]

PipelineInit ==
    /\ files \in WorkingDirectories
    /\ kind = "none"
    /\ status = "none"
    /\ args = NoArgs
    /\ self = NoObject
    /\ last = NoRun
    /\ prev = NoRun
    /\ pipe = NoPipeline

\* main, line 15-17: (in_file, out_file, file_format) = sys.argv[1:4]
Main ==
    /\ pipe.pc = "idle"
    /\ \E argv \in Argvs :
          pipe' = IF Len(argv) >= 3
                  THEN [pipe EXCEPT !.pc = "burst_pdf",
                                    !.argv = SubSeq(argv, 1, 3)]
                  ELSE [pipe EXCEPT !.pc = "failed",
                                    !.argv = argv,
                                    !.exc = [type |-> "ValueError",
                                             what |-> "not enough values",
                                             value |-> argv]]
    /\ UNCHANGED <<files, kind, status, args, self, last, prev>>

\* burst_pdf(in_file); on return code 0 pdftk has written the page files.
BurstPdf ==
    /\ pipe.pc = "burst_pdf"
    /\ \E signature \in Signatures, returncode \in ReturnCodes :
          LET tmp == "tmp" \o ToString(signature)
              r == make_command("burst", PyStr(pipe.argv[1]),
                                PyStr(tmp \o "_%04d.pdf"),
                                PyNone, PyNone, PyNone, files)
              o == StageOutcome("burst_pdf", r.run, returncode)
              written == {tmp \o "_0001.pdf"}
          IN  /\ args' = r.args /\ status' = r.status
              /\ self' = r.self /\ last' = r.run
              /\ IF o.exc.type = "none"
                 THEN /\ files' = files \cup written
                      /\ pipe' = [pipe EXCEPT
                                     !.pc = "tiff_pages",
                                     !.signature = signature,
                                     !.pages = tmp \o "*.pdf",
                                     !.log = Append(@, o.entry),
                                     !.created = @ \cup written]
                 ELSE /\ files' = files
                      /\ pipe' = [Failed(o) EXCEPT !.signature = signature]
    /\ kind' = "PDFTK"
    /\ UNCHANGED prev

\* tiff_pages(pages); on return code 0 magick has written the images.
TiffPages ==
    /\ pipe.pc = "tiff_pages"
    /\ \E returncode \in ReturnCodes :
          LET stem == DropLast(pipe.pages, 5)
              r == magick(PyStr(pipe.pages), PyStr(stem \o "_%04d.tiff"),
                          PyInt(300), PyStr("Grayscale"), PyStr("lzw"),
                          PyStr("white"), PyStr("off"), PyInt(8))
              o == StageOutcome("tiff_pages", r.run, returncode)
              written == {stem \o "_0000.tiff"}
          IN  /\ args' = r.args /\ status' = r.status
              /\ self' = r.self /\ last' = r.run
              /\ IF o.exc.type = "none"
                 THEN /\ files' = files \cup written
                      /\ pipe' = [pipe EXCEPT
                                     !.pc = "tess_pages",
                                     !.tiffed = stem \o "*.tiff",
                                     !.log = Append(@, o.entry),
                                     !.created = @ \cup written]
                 ELSE /\ files' = files
                      /\ pipe' = Failed(o)
    /\ kind' = "Magick"
    /\ UNCHANGED prev

\* tess_pages(tiffed, file_format, out_file): make_tess_list writes the
\* list file, then tesseract runs; on return code 0 it has written the
\* output.
TessPages ==
    /\ pipe.pc = "tess_pages"
    /\ \E returncode \in ReturnCodes :
          LET fname_file == DropLast(pipe.tiffed, 6) \o ".txt"
              r == tesseract(PyStr(fname_file), PyStr(pipe.argv[2]),
                             PyStr(pipe.argv[3]))
              o == StageOutcome("tess_pages", r.run, returncode)
              output == pipe.argv[2] \o "." \o pipe.argv[3]
          IN  /\ args' = r.args /\ status' = r.status
              /\ self' = r.self /\ last' = r.run
              /\ IF o.exc.type = "none"
                 THEN /\ files' = files \cup {fname_file, output}
                      /\ pipe' = [pipe EXCEPT
                                     !.pc = "clean_up",
                                     !.tessed =
                                         DropLast(pipe.tiffed, 10) \o "*",
                                     !.log = Append(@, o.entry),
                                     !.created = @ \cup {fname_file}]
                 ELSE /\ files' = files \cup {fname_file}
                      /\ pipe' = [Failed(o) EXCEPT
                                     !.created = @ \cup {fname_file}]
    /\ kind' = "Tesseract"
    /\ UNCHANGED prev

\* clean_up(tessed): os.remove of every name glob(tessed) yields.
CleanUp ==
    /\ pipe.pc = "clean_up"
    /\ files' = files \ glob(pipe.tessed, files)
    /\ pipe' = [pipe EXCEPT !.pc = "done",
                            !.log = Append(@, [stage |-> "clean_up",
                                               returncode |-> <<>>]),
                            !.removed = glob(pipe.tessed, files)]
    /\ UNCHANGED <<kind, status, args, self, last, prev>>

PipelineNext ==
    \/ Main
    \/ BurstPdf
    \/ TiffPages
    \/ TessPages
    \/ CleanUp

PipelineSpec == PipelineInit /\ [][PipelineNext]_vars

(* ------------------------------ properties ---------------------------- *)

\* run() has been called on the binding at least once.
Ran == status = "constructed" /\ last.calls # <<>>

\* The no-op condition of each binding, on its token groups.
NoopCondition ==
    CASE kind = "PDFTK" ->
            self.input = <<>> /\ self.output = <<>> /\ self.operation = <<>>
      [] kind = "Magick" ->
            /\ self.pre_image_settings = <<>> /\ self.input = <<>>
            /\ self.post_image_settings = <<>> /\ self.output = <<>>
      [] kind = "Tesseract" ->
            /\ self.input = <<>> /\ self.output = <<>>
            /\ self.options = <<>> /\ self.config_file = <<>>
      [] OTHER -> FALSE

\* The minimal version command of each binding.
VersionCommand ==
    CASE kind = "PDFTK" -> <<"pdftk", "--version">>
      [] kind = "Magick" -> <<"magick", "-version">>
      [] kind = "Tesseract" -> <<"tesseract", "--version">>
      [] OTHER -> <<>>

\* The validators, in the order input, output, operators, options.
ValidatorOrder ==
    <<"validate_input", "validate_output",
      "validate_operators", "validate_options">>

\* The position of the first occurrence of method m in a call log, 0 if
\* it was not called.
CallIndex(calls, m) ==
    IF \E i \in 1..Len(calls) : calls[i] = m
    THEN CHOOSE i \in 1..Len(calls) :
            calls[i] = m /\ \A j \in 1..(i - 1) : calls[j] # m
    ELSE 0

\* The validators that raise on the binding as constructed.
Raising == {m \in Range(ValidatorOrder) :
               Validate(kind, m, self, files).type # "none"}

\* C1: for every binding and every non-noop configuration, run() launches
\* a subprocess only after all four validators were called and returned
\* without raising; if any validator raises, prepare_command is never
\* called and no subprocess is launched.
C1_LaunchOnlyAfterValidation ==
    (Ran /\ ~NoopCondition) =>
        /\ last.launched # <<>> =>
              /\ Raising = {}
              /\ \A m \in Range(ValidatorOrder) :
                    /\ CallIndex(last.calls, m) > 0
                    /\ CallIndex(last.calls, m)
                         < CallIndex(last.calls, "prepare_command")
              /\ CallIndex(last.calls, "prepare_command")
                   < CallIndex(last.calls, "subprocess.run")
        /\ Raising # {} =>
              /\ CallIndex(last.calls, "prepare_command") = 0
              /\ CallIndex(last.calls, "subprocess.run") = 0
              /\ last.launched = <<>>
              /\ last.exc.type # "none"

\* A non-noop PDFTK binding whose run() launched the prepared command.
C1_Witness ==
    /\ Ran /\ kind = "PDFTK" /\ ~NoopCondition
    /\ last.launched = <<PDFTK_prepare_command(self)>>

\* The token is not an existing file and not "PROMPT".
BadInputToken(t) == t \notin files /\ t # "PROMPT"

\* C2: a non-noop run() calls the validators strictly in the order input,
\* output, operators, options, stops at the first that raises and
\* propagates its exception; with input and output both invalid the error
\* is the input failure and no later validator is run.
C2_ValidationOrder ==
    (Ran /\ ~NoopCondition) =>
        LET bad == {i \in 1..4 :
                      Validate(kind, ValidatorOrder[i], self, files).type
                          # "none"}
            n == IF bad = {} THEN 4
                 ELSE CHOOSE i \in bad : \A j \in bad : i <= j
        IN  /\ SubSeq(last.calls, 2, n + 1) = SubSeq(ValidatorOrder, 1, n)
            /\ \A i \in (n + 1)..4 :
                  CallIndex(last.calls, ValidatorOrder[i]) = 0
            /\ bad # {} =>
                  /\ Len(last.calls) = n + 1
                  /\ last.exc = Validate(kind, ValidatorOrder[n], self, files)
            /\ (/\ kind = "PDFTK"
                /\ \E k \in 1..Len(self.input) : BadInputToken(self.input[k])
                /\ PDFTK_validate_output(self, files).type # "none") =>
                  /\ last.exc.what = "Invalid input value"
                  /\ last.calls = <<"test_args_empty", "validate_input">>

\* run() on a PDFTK binding whose input and output are both invalid
\* reported the input failure.
C2_Witness ==
    /\ Ran /\ kind = "PDFTK"
    /\ PDFTK_validate_input(self, files).type = "ValidationError"
    /\ PDFTK_validate_output(self, files).type = "ValidationError"
    /\ last.exc.what = "Invalid input value"

\* The outcome of a call of run() is the health check: the version
\* command alone, no validator and no prepare_command called.
HealthCheck(r) ==
    /\ r.launched = <<VersionCommand>>
    /\ r.calls = <<"test_args_empty", "subprocess.run">>
    /\ r.exc.type = "none"

IsPDFTK == kind = "PDFTK" /\ status = "constructed"

\* The value supplied under key in a constructor mapping, None if the
\* mapping or the key is absent.
SuppliedValue(mapping, key) ==
    IF mapping.tag = "dict" THEN DictGet(mapping, key) ELSE PyNone

\* The literal of a boolean flag iff the option was supplied truthy.
FlagLiteral(key) ==
    IF Truthy(SuppliedValue(args.options, key)) THEN <<key>> ELSE <<>>

\* C4: prepare_command of a PDFTK binding returns "pdftk", the tokens of
\* input, input_pw, operation, operation_arguments, output, encrypt,
\* allow, owner_pw, user_pw, then the literals of the flags supplied
\* truthy in the order flatten, need_appearances, compress, uncompress,
\* keep_first_id, keep_final_id, drop_xfa, verbose, then ask/dont_ask.
C4_GrammarOrder ==
    IsPDFTK =>
        PDFTK_prepare_command(self) =
            <<"pdftk">>
            \o PDFTK_assign_input(args.input_)
            \o format_input_vars(SuppliedValue(args.operators, "input_pw"))
            \o default_var(SuppliedValue(args.operators, "operation"), <<>>)
            \o default_var(SuppliedValue(args.operators, "operation_arguments"),
                           <<>>)
            \o PDFTK_assign_output(args.output)
            \o format_encrypt(SuppliedValue(args.options, "encrypt")).tokens
            \o format_op_args("allow", SuppliedValue(args.operators, "allow"))
            \o format_op_args("owner_pw",
                              SuppliedValue(args.operators, "owner_pw"))
            \o format_op_args("user_pw", SuppliedValue(args.operators, "user_pw"))
            \o FlagLiteral("flatten")
            \o FlagLiteral("need_appearances")
            \o FlagLiteral("compress")
            \o FlagLiteral("uncompress")
            \o FlagLiteral("keep_first_id")
            \o FlagLiteral("keep_final_id")
            \o FlagLiteral("drop_xfa")
            \o FlagLiteral("verbose")
            \o (IF args.options.tag = "dict"
                THEN format_ask(DictGet(args.options, "ask")) ELSE <<>>)

\* The string is empty or holds whitespace only.
IsBlank(s) == \A k \in 1..Len(s) : SubSeq(s, k, k) \in Whitespace

PasswordKeys == {"input_pw", "owner_pw", "user_pw"}

\* C5: whenever input_pw, owner_pw or user_pw is supplied with an empty
\* or whitespace-only password, validate_operators raises a validation
\* failure and run() launches nothing; passwords holding a non-whitespace
\* character pass validate_pws.
C5_BlankPasswordRejected ==
    IsPDFTK =>
        LET given == {key \in PasswordKeys :
                         SuppliedValue(args.operators, key).tag = "str"}
            blank == {key \in given :
                         IsBlank(SuppliedValue(args.operators, key).v)}
        IN  /\ blank # {} =>
                  /\ PDFTK_validate_operators(self).type = "ValidationError"
                  /\ (Ran /\ ~NoopCondition) => last.launched = <<>>
            /\ blank = {} => PDFTK_validate_pws(self) = NoExc

\* C6: validate_input of the PDF binding passes iff every input token is
\* an existing file or the literal "PROMPT" (whether or not a file of
\* that name exists); when it rejects, the failure names the first
\* offending token in input order.
C6_ValidateInput ==
    (Ran /\ kind = "PDFTK" /\ ~NoopCondition) =>
        LET bad == {k \in 1..Len(self.input) : BadInputToken(self.input[k])}
        IN  /\ bad = {} <=> last.exc.what # "Invalid input value"
            /\ bad = {} <=> PDFTK_validate_input(self, files) = NoExc
            /\ bad # {} =>
                  LET first == CHOOSE k \in bad : \A j \in bad : k <= j
                  IN  last.exc = ValidationError("Invalid input value",
                                                 <<self.input[first]>>)

\* run() rejected an input list with two missing files after an existing
\* one and named the first of the two.
C6_Witness ==
    /\ Ran /\ kind = "PDFTK"
    /\ self.input = <<"a.pdf", "gone.pdf", "missing.pdf">>
    /\ last.exc = ValidationError("Invalid input value", <<"gone.pdf">>)

\* The token is a filename with the .pdf extension.
HasPdfExtension(t) ==
    Len(t) > 4 /\ SubSeq(t, Len(t) - 3, Len(t)) = ".pdf"

\* C7: validate_output of the PDF binding passes iff the output is absent
\* or every output token after the "output" flag is a filename with the
\* .pdf extension or exactly "PROMPT" and is not equal to any input token.
C7_ValidateOutput ==
    IsPDFTK =>
        (PDFTK_validate_output(self, files) = NoExc
         <=> \/ args.output.tag = "None"
             \/ \A k \in 2..Len(self.output) :
                   /\ HasPdfExtension(self.output[k])
                      \/ self.output[k] = "PROMPT"
                   /\ ~InList(self.output[k], self.input))

\* The operation token group is empty or one name of the enumerated set.
OperationOk ==
    \/ self.operation = <<>>
    \/ /\ Len(self.operation) = 1
       /\ self.operation[1] \in Range(allowable_ops)

NinePermissions ==
    {"Printing", "DegradedPrinting", "ModifyContents", "Assembly",
     "CopyContents", "ScreenReaders", "ModifyAnnotations", "FillIn",
     "AllFeatures"}

\* The entries of xs that are none of the nine permissions, in order.
RECURSIVE UnknownPermissions(_)
UnknownPermissions(xs) ==
    IF xs = <<>> THEN <<>>
    ELSE (IF Head(xs) \in NinePermissions THEN <<>> ELSE <<Head(xs)>>)
         \o UnknownPermissions(Tail(xs))

\* C9: validate_permissions of the PDF binding passes iff every entry of
\* the supplied allow list is one of the nine permissions; otherwise it
\* raises one validation failure listing all unknown entries together.
C9_ValidatePermissions ==
    (IsPDFTK /\ SuppliedValue(args.operators, "allow").tag # "None") =>
        LET given == SuppliedValue(args.operators, "allow")
            entries == IF given.tag = "str" THEN <<given.v>> ELSE given.v
            unknown == UnknownPermissions(entries)
        IN  /\ unknown = <<>> <=> PDFTK_validate_permissions(self) = NoExc
            /\ unknown # <<>> =>
                  PDFTK_validate_permissions(self) =
                      ValidationError("Invalid permission(s)", unknown)

\* C10: the encrypt option of the PDF binding: absent yields no token, 40
\* yields ["encrypt_40bit"], 128 yields ["encrypt_128bit"], any other
\* value raises an error that is not a validation failure, and no
\* subprocess is ever executed for that binding.
C10_Encrypt ==
    (kind = "PDFTK" /\ status # "none") =>
        LET e == SuppliedValue(args.options, "encrypt")
        IN  /\ e.tag = "None" =>
                  status = "constructed" /\ self.encrypt = <<>>
            /\ e = PyInt(40) =>
                  status = "constructed"
                  /\ self.encrypt = <<"encrypt_40bit">>
            /\ e = PyInt(128) =>
                  status = "constructed"
                  /\ self.encrypt = <<"encrypt_128bit">>
            /\ e \notin {PyNone, PyInt(40), PyInt(128)} =>
                  /\ status = "raised"
                  /\ last.exc.type = "Exception"
                  /\ last.exc.type # "ValidationError"
                  /\ last.calls = <<>> /\ last.launched = <<>>
                  /\ prev.calls = <<>> /\ prev.launched = <<>>
                  /\ ~ENABLED Run

\* The constructor given encrypt 64 raised and left no binding to run.
C10_Witness ==
    /\ kind = "PDFTK" /\ status = "raised"
    /\ SuppliedValue(args.options, "encrypt") = PyInt(64)
    /\ last.exc.type = "Exception"

\* A Magick binding exists.
IsMagick == kind = "Magick" /\ status = "constructed"

\* "-" + name, str(value) for each operator of the mapping, in insertion
\* order, that the selection keeps.
RECURSIVE OperatorPairs(_, _)
OperatorPairs(items, keep) ==
    IF items = <<>> THEN <<>>
    ELSE (IF Head(items)[1] \in keep
          THEN <<"-" \o Head(items)[1], PyToStr(Head(items)[2].value)>>
          ELSE <<>>)
         \o OperatorPairs(Tail(items), keep)

\* The operators supplied to the Magick binding, as <<name, descriptor>>.
MagickOperators ==
    IF args.operators.tag = "dict" THEN args.operators.v ELSE <<>>

\* The names of the supplied operators at the position.
NamesAt(position) ==
    {MagickOperators[i][1] : i \in
        {j \in 1..Len(MagickOperators) :
            MagickOperators[j][2].position = position}}

\* The names of the supplied operators of type "setting" at the position.
SettingNamesAt(position) ==
    {MagickOperators[i][1] : i \in
        {j \in 1..Len(MagickOperators) :
            /\ MagickOperators[j][2].type = "setting"
            /\ MagickOperators[j][2].position = position}}

\* C11 as stated: prepare_command of an image binding returns "magick",
\* the pair "-"+name, str(value) of each operator with position "pre" in
\* insertion order, the input tokens, the pairs of each operator with
\* position "post", then the output tokens.
C11_EveryOperatorPlaced ==
    IsMagick =>
        Magick_prepare_command(self) =
            <<"magick">>
            \o OperatorPairs(MagickOperators, NamesAt("pre"))
            \o default_var(args.input_, <<>>)
            \o OperatorPairs(MagickOperators, NamesAt("post"))
            \o Magick_assign_output(args.output)

\* C11 as amended: the pairs are those of the operators of type "setting"
\* with the position; an operator of another type yields no token.  No
\* operator token is on the wrong side of the input.
C11_SettingsPlaced ==
    IsMagick =>
        /\ Magick_prepare_command(self) =
              <<"magick">>
              \o OperatorPairs(MagickOperators, SettingNamesAt("pre"))
              \o default_var(args.input_, <<>>)
              \o OperatorPairs(MagickOperators, SettingNamesAt("post"))
              \o Magick_assign_output(args.output)
        /\ (Ran /\ ~NoopCondition) =>
              last.launched = <<Magick_prepare_command(self)>>

\* The example: density (pre, 300), depth (post, 8), input "a.pdf" and
\* output "a.tiff" ran as magick -density 300 a.pdf -depth 8 a.tiff.
C11_Witness ==
    /\ Ran /\ kind = "Magick"
    /\ args.input_ = PyStr("a.pdf") /\ args.output = PyStr("a.tiff")
    /\ args.operators =
          PyDict(<< <<"density", Setting("setting", "pre", PyInt(300))>>,
                    <<"depth", Setting("setting", "post", PyInt(8))>> >>)
    /\ last.launched =
          << <<"magick", "-density", "300", "a.pdf", "-depth", "8", "a.tiff">> >>

\* The tokens claimed for an input or input_pw value: "name=value" per
\* entry of a mapping, the string itself, the elements of a sequence,
\* nothing for an absent value.
ClaimedInputTokens(value) ==
    CASE value.tag = "None" -> <<>>
      [] value.tag = "str" -> <<value.v>>
      [] value.tag = "list" -> value.v
      [] value.tag = "dict" ->
            [i \in 1..Len(value.v) |->
                value.v[i][1] \o "=" \o PyToStr(value.v[i][2])]

\* C15: the input and input_pw tokens of a PDFTK binding are one
\* "name=value" token per entry for a mapping, a single token for a
\* string, the elements in order for a sequence, and none for an absent
\* value.
C15_MappingRule ==
    IsPDFTK =>
        /\ self.input = ClaimedInputTokens(args.input_)
        /\ self.input_pw =
              ClaimedInputTokens(SuppliedValue(args.operators, "input_pw"))

\* A module-level command has returned or raised from run().
CommandReturned == kind = "PDFTK" /\ status = "returned"

\* The command called: the operation make_command stored.
CommandCalled == DictGet(args.operators, "operation").v

\* C14: a module-level command called with an existing input and a .pdf
\* output never fails with the invalid-operation ValidationError; its
\* operation passes validate_operation.
C14_CommandsAccepted ==
    (/\ CommandReturned
     /\ args.input_ = PyStr("a.pdf")
     /\ args.output = PyStr("o.pdf")) =>
        /\ PDFTK_validate_operation(self) = NoExc
        /\ ~(last.exc.type = "ValidationError"
             /\ last.exc.what = "Invalid operation")

\* The stages of main in program order.
StageOrder == <<"burst_pdf", "tiff_pages", "tess_pages", "clean_up">>

\* C12: the stages entered so far are a prefix of burst, image
\* conversion, OCR, cleanup; a stage is entered only after the subprocess
\* of the stage before it returned 0; a non-zero return code is the last
\* thing that happened and left the pipeline failed with OutputError; no
\* file is removed unless the OCR subprocess returned 0.
C12_StagesInOrder ==
    LET log == pipe.log
    IN  /\ Len(log) <= Len(StageOrder)
        /\ \A i \in 1..Len(log) : log[i].stage = StageOrder[i]
        /\ \A i \in 2..Len(log) : log[i - 1].returncode = <<0>>
        /\ \A i \in 1..Len(log) :
              log[i].returncode \notin {<<>>, <<0>>} =>
                  /\ i = Len(log)
                  /\ pipe.pc = "failed"
                  /\ pipe.exc = OutputError
        /\ pipe.pc = "failed" => pipe.exc.type # "none"
        /\ (pipe.removed # {} \/ ~(pipe.created \subseteq files)) =>
              /\ Len(log) = 4
              /\ log[3].returncode = <<0>>

\* All four stages ran and cleanup removed files.
C12_Witness ==
    /\ pipe.pc = "done"
    /\ Len(pipe.log) = 4
    /\ pipe.removed # {}

\* C13: the pattern tess_pages returns is "tmp<signature>*", and cleanup
\* removes only files with that prefix that the pipeline created.
C13_CleanupOwnFilesOnly ==
    pipe.pc \in {"clean_up", "done"} =>
        LET prefix == "tmp" \o ToString(pipe.signature)
        IN  /\ pipe.tessed = prefix \o "*"
            /\ \A f \in pipe.removed :
                  /\ GlobMatch(f, prefix \o "*")
                  /\ f \in pipe.created

====
